---- MODULE Spec2Model ----
(***************************************************************************)
(* Two presentation units of the patient chart:                            *)
(*                                                                         *)
(*   OrderCancellationForm  (esm-patient-orders-app,                       *)
(*                           cancel-order-form.component.tsx)              *)
(*   ConditionsOverview     (esm-patient-conditions-app,                   *)
(*                           conditions-overview.component.tsx)            *)
(*                                                                         *)
(* Each is modelled as a state machine over its React state and the state  *)
(* of the hooks it uses; every event handler is one action.  The calls a   *)
(* component makes to its collaborators (cancelOrder, closeWorkspace,      *)
(* mutate, showSnackbar) are recorded, in order, in the sequence effects.  *)
(* FormSpec runs the form alone and ConditionsSpec the overview alone: the *)
(* two components share no state.                                          *)
(***************************************************************************)
EXTENDS Integers, Sequences, FiniteSets, TLC

\* ------------------------------------------------------------------ bounds
\* cancelOrder calls one form instance may issue
MaxCalls == 2
\* conditions a fetch may return
MaxConditions == 3
\* largest configured conditionPageSize
MaxPageSize == 2

\* ------------------------------------------------------- optional values
\* A JavaScript value that may be undefined: <<>> is undefined, <<v>> is v.
None == <<>>
Some(v) == <<v>>

Max(a, b) == IF a >= b THEN a ELSE b
Min(a, b) == IF a <= b THEN a ELSE b

VARIABLES
  \* --- OrderCancellationForm
  cancellationDate,       \* form value: None or Some(day offset from today)
  reasonForCancellation,  \* form value: None or Some(text)
  errors,                 \* formState.errors: set of [field, message]
  isSubmitting,           \* formState.isSubmitting
  showErrorNotification,  \* useState(false)
  workspaceOpen,          \* the workspace showing the form is open
  calls,                  \* cancelOrder promises: [data, payload, status, message]
  effects,                \* collaborator invocations, in order
  \* --- ConditionsOverview
  conditions,             \* useConditions().conditions: None or Some(seq)
  isLoading,              \* useConditions().isLoading
  error,                  \* useConditions().error: None or Some(err)
  filter,                 \* useState('Active')
  page,                   \* usePagination's page state
  conditionPageSize       \* useConfig().conditionPageSize

formVars == <<cancellationDate, reasonForCancellation, errors, isSubmitting,
              showErrorNotification, workspaceOpen, calls, effects>>
conditionsVars == <<conditions, isLoading, error, filter, page, conditionPageSize>>
vars == <<formVars, conditionsVars>>

(***************************************************************************)
(*                         OrderCancellationForm                           *)
(***************************************************************************)

\* Dates are whole days relative to the current day: dayjs().startOf('day')
\* is day 0, yesterday is -1, tomorrow is 1.
StartOfToday == 0
DateValues == {-1, 0, 1}
\* Texts the user can leave in the reason text area.
ReasonTexts == {"", "duplicate"}
\* Messages a rejected cancelOrder promise may carry.
RejectionMessages == {"Internal Server Error", "Order already stopped"}

order == [uuid |-> "order-uuid", display |-> "Aspirin", orderNumber |-> "ORD-1"]

\* Mutant: the schema without its refine, so that any date passes
cancellationDateIssuesWithoutRefine(value) ==
  IF value = None
    THEN {[field |-> "cancellationDate", message |-> "Cancellation date is required"]}
  ELSE {}

\* z.date({required_error}).refine(date => date >= dayjs().startOf('day').toDate())
cancellationDateIssues(value) ==
  IF value = None
    THEN {[field |-> "cancellationDate", message |-> "Cancellation date is required"]}
  ELSE IF ~(value[1] >= StartOfToday)
    THEN {[field |-> "cancellationDate", message |-> "Date cannot be before today"]}
  ELSE {}

\* z.string({required_error}): any string passes, the empty one included
reasonForCancellationIssues(value) ==
  IF value = None
    THEN {[field |-> "reasonForCancellation",
           message |-> "Reason for cancellation is required"]}
  ELSE {}

\* zodResolver(cancelOrderSchema) applied to the form values: the errors object
cancelOrderSchema(date, reason) ==
  cancellationDateIssues(date) \cup reasonForCancellationIssues(reason)

\* mode: 'all' -- a change of one field re-validates and replaces that field's error
revalidated(errs, fieldName, issues) ==
  {e \in errs : e.field # fieldName} \cup issues

\* function onError(err) { if (err?.oneFieldRequired) setShowErrorNotification(true) }
onError(err, shown) ==
  IF \E e \in err : e.field = "oneFieldRequired" THEN TRUE ELSE shown

Effect(fn, call, arg) == [fn |-> fn, call |-> call, arg |-> arg]

\* props.closeWorkspace(): the host closes the workspace; by is the cancelOrder
\* call whose handler invoked it, 0 for the Discard button
closeWorkspace(log, by) == Append(log, Effect("closeWorkspace", by, ""))

\* usePatientOrders(patientUuid).mutate(): triggers the re-fetch of the order list
mutate(log, by) == Append(log, Effect("mutate", by, ""))

\* showSnackbar({kind, subtitle})
showSnackbar(log, by, kind, subtitle) == Append(log, Effect(kind, by, subtitle))

\* cancelOrder(order, payload): a new pending promise; message is the err.message
\* it rejects with, once it has
cancelOrder(data, payload) ==
  [data |-> data, payload |-> payload, status |-> "pending", message |-> ""]

FormInit ==
  /\ cancellationDate = None
  /\ reasonForCancellation = None
  /\ errors = {}
  /\ isSubmitting = FALSE
  /\ showErrorNotification = FALSE
  /\ workspaceOpen = TRUE
  /\ calls = <<>>
  /\ effects = <<>>

\* The user can act on the form while it is shown and no task of the event
\* loop is in the middle of handleSubmit (the resolver settles in microtasks).
FormIdle == workspaceOpen /\ ~isSubmitting

\* OpenmrsDatePicker {...field}: field.onChange(date)
ChangeCancellationDate(d) ==
  /\ FormIdle
  /\ cancellationDate # Some(d)
  /\ cancellationDate' = Some(d)
  /\ errors' = revalidated(errors, "cancellationDate", cancellationDateIssues(Some(d)))
  /\ UNCHANGED <<reasonForCancellation, isSubmitting, showErrorNotification,
                 workspaceOpen, calls, effects>>
  /\ UNCHANGED conditionsVars

\* TextArea onChange={(evt) => onChange(evt.target.value)}: fires when the text
\* shown changes; an untouched field shows the empty text
ChangeReason(text) ==
  /\ FormIdle
  /\ text # (IF reasonForCancellation = None THEN "" ELSE reasonForCancellation[1])
  /\ reasonForCancellation' = Some(text)
  /\ errors' = revalidated(errors, "reasonForCancellation",
                           reasonForCancellationIssues(Some(text)))
  /\ UNCHANGED <<cancellationDate, isSubmitting, showErrorNotification,
                 workspaceOpen, calls, effects>>
  /\ UNCHANGED conditionsVars

\* <Button kind="secondary" onClick={() => closeWorkspace()}>Discard</Button>
Discard ==
  /\ FormIdle
  /\ effects' = closeWorkspace(effects, 0)
  /\ workspaceOpen' = FALSE
  /\ UNCHANGED <<cancellationDate, reasonForCancellation, errors, isSubmitting,
                 showErrorNotification, calls>>
  /\ UNCHANGED conditionsVars

\* <Button onClick={handleSubmit(cancelOrderRequest, onError)} disabled={isSubmitting}>:
\* handleSubmit sets isSubmitting and starts the resolver
SubmitClick ==
  /\ workspaceOpen
  /\ ~isSubmitting
  /\ Len(calls) < MaxCalls
  /\ isSubmitting' = TRUE
  /\ UNCHANGED <<cancellationDate, reasonForCancellation, errors,
                 showErrorNotification, workspaceOpen, calls, effects>>
  /\ UNCHANGED conditionsVars

\* cancelOrderRequest(data): clears the notice, builds the payload and starts
\* cancelOrder(order, payload); the promise is not returned to handleSubmit
cancelOrderRequest(data) ==
  /\ showErrorNotification' = FALSE
  /\ calls' = Append(calls, cancelOrder(data,
                 [fulfillerStatus |-> "DECLINED",
                  fulfillerComment |-> data.reasonForCancellation]))
  /\ effects' = Append(effects, Effect("cancelOrder", Len(calls) + 1,
                                       data.reasonForCancellation))

\* handleSubmit after the resolver has settled: onValid(values) when there are
\* no errors, onInvalid(errors) otherwise; then isSubmitting goes back to false,
\* as cancelOrderRequest returns undefined and there is nothing to await
HandleSubmitSettles ==
  /\ isSubmitting
  /\ errors' = cancelOrderSchema(cancellationDate, reasonForCancellation)
  /\ IF errors' = {}
       THEN cancelOrderRequest([cancellationDate |-> cancellationDate[1],
                                reasonForCancellation |-> reasonForCancellation[1]])
       ELSE /\ showErrorNotification' = onError(errors', showErrorNotification)
            /\ UNCHANGED <<calls, effects>>
  /\ isSubmitting' = FALSE
  /\ UNCHANGED <<cancellationDate, reasonForCancellation, workspaceOpen>>
  /\ UNCHANGED conditionsVars

\* Mutant: the success handler without its mutate()
cancelOrderResolvesWithoutMutate(i) ==
  /\ ~isSubmitting
  /\ calls[i].status = "pending"
  /\ calls' = [calls EXCEPT ![i].status = "resolved"]
  /\ effects' = showSnackbar(closeWorkspace(effects, i), i, "success", order.orderNumber)
  /\ workspaceOpen' = FALSE
  /\ UNCHANGED <<cancellationDate, reasonForCancellation, errors, isSubmitting,
                 showErrorNotification>>
  /\ UNCHANGED conditionsVars

\* cancelOrder(...).then((res) => { closeWorkspace(); mutate(); showSnackbar({kind:
\* 'success', subtitle: ...orderNumber...}) }, ...)
cancelOrderResolves(i) ==
  /\ ~isSubmitting
  /\ calls[i].status = "pending"
  /\ calls' = [calls EXCEPT ![i].status = "resolved"]
  /\ effects' = showSnackbar(mutate(closeWorkspace(effects, i), i), i,
                             "success", order.orderNumber)
  /\ workspaceOpen' = FALSE
  /\ UNCHANGED <<cancellationDate, reasonForCancellation, errors, isSubmitting,
                 showErrorNotification>>
  /\ UNCHANGED conditionsVars

\* Mutant: the failure handler closing the workspace as the success handler does
cancelOrderRejectsClosing(i, message) ==
  /\ ~isSubmitting
  /\ calls[i].status = "pending"
  /\ calls' = [calls EXCEPT ![i].status = "rejected", ![i].message = message]
  /\ effects' = showSnackbar(closeWorkspace(effects, i), i, "error", message)
  /\ workspaceOpen' = FALSE
  /\ UNCHANGED <<cancellationDate, reasonForCancellation, errors, isSubmitting,
                 showErrorNotification>>
  /\ UNCHANGED conditionsVars

\* cancelOrder(...).then(..., (err) => { showSnackbar({kind: 'error', subtitle:
\* err?.message}) })
cancelOrderRejects(i, message) ==
  /\ ~isSubmitting
  /\ calls[i].status = "pending"
  /\ calls' = [calls EXCEPT ![i].status = "rejected", ![i].message = message]
  /\ effects' = showSnackbar(effects, i, "error", message)
  /\ UNCHANGED <<cancellationDate, reasonForCancellation, errors, isSubmitting,
                 showErrorNotification, workspaceOpen>>
  /\ UNCHANGED conditionsVars

FormNext ==
  \/ \E d \in DateValues : ChangeCancellationDate(d)
  \/ \E text \in ReasonTexts : ChangeReason(text)
  \/ Discard
  \/ SubmitClick
  \/ HandleSubmitSettles
  \/ \E i \in 1..Len(calls) : cancelOrderResolves(i)
  \/ \E i \in 1..Len(calls) : \E m \in RejectionMessages : cancelOrderRejects(i, m)

(***************************************************************************)
(*                           ConditionsOverview                            *)
(***************************************************************************)

ClinicalStatuses == {"Active", "Inactive"}
Filters == {"All", "Active", "Inactive"}

\* The condition sequences a fetch can return: the i-th carries id i.
ConditionSeqs ==
  UNION {{[i \in 1..n |-> [id |-> i, clinicalStatus |-> s[i]]] :
            s \in [1..n -> ClinicalStatuses]} : n \in 0..MaxConditions}

ConditionsInit ==
  /\ conditions = None
  /\ isLoading = TRUE
  /\ error = None
  /\ filter = "Active"
  /\ page = 1
  /\ conditionPageSize \in 1..MaxPageSize

\* useConditions(patientUuid): the fetch succeeds with a fresh set of records,
\* which replaces the previous one wholesale
FetchSucceeds(records) ==
  /\ conditions' = Some(records)
  /\ isLoading' = FALSE
  /\ error' = None
  /\ UNCHANGED <<filter, page, conditionPageSize>>
  /\ UNCHANGED formVars

\* useConditions(patientUuid): the fetch fails; the records known so far are kept
FetchFails ==
  /\ error = None
  /\ error' = Some("fetch failed")
  /\ isLoading' = FALSE
  /\ UNCHANGED <<conditions, filter, page, conditionPageSize>>
  /\ UNCHANGED formVars

\* conditions?.filter((condition) => condition.clinicalStatus === filter)
RECURSIVE ArrayFilter(_, _)
ArrayFilter(arr, status) ==
  IF arr = <<>> THEN <<>>
  ELSE (IF arr[1].clinicalStatus = status THEN <<arr[1]>> ELSE <<>>)
         \o ArrayFilter(Tail(arr), status)

\* Mutant: the memo returning the conditions whatever the filter
filteredConditionsOfIgnoringFilter(f, conds) == conds

\* useMemo(() => { if (!filter || filter == 'All') return conditions; ... })
filteredConditionsOf(f, conds) ==
  IF f = "" \/ f = "All" THEN conds
  ELSE IF conds = None THEN None
  ELSE Some(ArrayFilter(conds[1], f))

filteredConditions == filteredConditionsOf(filter, conditions)

\* filteredConditions?.map((condition) => ({...condition, id, status: clinicalStatus}))
tableRows ==
  IF filteredConditions = None THEN None
  ELSE Some([i \in 1..Len(filteredConditions[1]) |->
               [id |-> filteredConditions[1][i].id,
                clinicalStatus |-> filteredConditions[1][i].clinicalStatus,
                status |-> filteredConditions[1][i].clinicalStatus]])

\* useConditionsSorting(headers, tableRows): no column is the sort key until a
\* header is clicked, and the rows come back in their order
sortedRows == tableRows

\* usePagination(data = [], resultsPerPage): the data
paginationData == IF sortedRows = None THEN <<>> ELSE sortedRows[1]

\* usePagination: totalPages = max(1, ceil(data.length / resultsPerPage))
totalPagesOf(len, resultsPerPage) ==
  Max(1, (len + resultsPerPage - 1) \div resultsPerPage)

totalPages == totalPagesOf(Len(paginationData), conditionPageSize)

\* usePagination: results = data.slice((page - 1) * resultsPerPage, page * resultsPerPage)
sliceOf(data, p, resultsPerPage) ==
  SubSeq(data, Min(Len(data), (p - 1) * resultsPerPage) + 1,
               Min(Len(data), p * resultsPerPage))

paginatedConditions == sliceOf(paginationData, page, conditionPageSize)
currentPage == page

\* What the component returns: the skeleton while loading, the error state on
\* an error, the table when there are conditions, the empty state otherwise
rendered ==
  IF isLoading THEN "DataTableSkeleton"
  ELSE IF error # None THEN "ErrorState"
  ELSE IF conditions # None /\ Len(conditions[1]) > 0 THEN "DataTable"
  ELSE "EmptyState"

\* {rows.length === 0 ? <Tile>No conditions to display ...</Tile> : null}
tileShown == rendered = "DataTable" /\ Len(paginatedConditions) = 0

\* handleConditionStatusChange = ({ selectedItem }) => setFilter(selectedItem)
handleConditionStatusChange(selectedItem) ==
  /\ rendered = "DataTable"
  /\ selectedItem # filter
  /\ filter' = selectedItem
  /\ UNCHANGED <<conditions, isLoading, error, page, conditionPageSize>>
  /\ UNCHANGED formVars

\* usePagination's goTo: setPage(max(1, min(totalPages, page)))
goToPage(total, n) == Max(1, Min(total, n))

\* onPageNumberChange={({ page }) => goTo(page)}
goTo(n) ==
  /\ rendered = "DataTable"
  /\ page' = goToPage(totalPages, n)
  /\ page' # page
  /\ UNCHANGED <<conditions, isLoading, error, filter, conditionPageSize>>
  /\ UNCHANGED formVars

\* useConfig(): the configured conditionPageSize changes
ConfigChanges(size) ==
  /\ size # conditionPageSize
  /\ conditionPageSize' = size
  /\ UNCHANGED <<conditions, isLoading, error, filter, page>>
  /\ UNCHANGED formVars

ConditionsNext ==
  \/ \E records \in ConditionSeqs : FetchSucceeds(records)
  \/ FetchFails
  \/ \E selectedItem \in Filters : handleConditionStatusChange(selectedItem)
  \/ \E n \in 1..MaxConditions : goTo(n)
  \/ \E size \in 1..MaxPageSize : ConfigChanges(size)

\* The form alone: the overview stays as constructed.
FormAloneInit == FormInit /\ ConditionsInit /\ conditionPageSize = 1
FormSpec == FormAloneInit /\ [][FormNext]_vars

\* The overview alone: the form stays as constructed.
ConditionsAloneInit == FormInit /\ ConditionsInit
ConditionsSpec == ConditionsAloneInit /\ [][ConditionsNext]_vars
(***************************************************************************)
(*                    Properties of OrderCancellationForm                  *)
(***************************************************************************)

\* The effects of kind fn that call i's handlers (0: the Discard button) produced
EffectsOf(fn, i) == {k \in 1..Len(effects) : effects[k].fn = fn /\ effects[k].call = i}
PendingCalls == {i \in 1..Len(calls) : calls[i].status = "pending"}
\* A step in which handleSubmit finishes
SubmitSettles == isSubmitting /\ ~isSubmitting'

\* C1: at most one cancelOrder call is in flight at any time (the submit button
\* is disabled while one is, so further clicks issue no second call).
C1_AtMostOneCallInFlight == Cardinality(PendingCalls) <= 1

\* The values a submit must have, in the words of the claim: a cancellation
\* date that is present and not before the start of today, and a reason that
\* is present.
ValuesPassValidation(date, reason) ==
  /\ date # None
  /\ date[1] >= StartOfToday
  /\ reason # None

\* C2: every cancelOrder call is issued by a submit whose validation of the
\* current field values has just succeeded, with those values; a submit whose
\* validation fails issues no cancelOrder call.
C2_CallOnlyAfterValidation ==
  [][/\ Len(calls') > Len(calls) =>
          /\ SubmitSettles
          /\ ValuesPassValidation(cancellationDate, reasonForCancellation)
          /\ Len(calls') = Len(calls) + 1
          /\ calls'[Len(calls')].data =
                [cancellationDate |-> cancellationDate[1],
                 reasonForCancellation |-> reasonForCancellation[1]]
     /\ SubmitSettles /\ ~ValuesPassValidation(cancellationDate, reasonForCancellation) =>
          /\ calls' = calls
          /\ effects' = effects
          /\ errors' # {}]_vars

\* C2 witness: one submit has issued a call and a later one, with the date set
\* to yesterday, has failed validation.
C2_Witness ==
  /\ Len(calls) = 1
  /\ ~isSubmitting
  /\ cancellationDate = Some(-1)
  /\ [field |-> "cancellationDate", message |-> "Date cannot be before today"] \in errors

C3_PerCall ==
  /\ Cardinality({k \in 1..Len(effects) : effects[k].fn = "cancelOrder"}) = Len(calls)
  /\ \A i \in 1..Len(calls) :
       LET n == IF calls[i].status = "resolved" THEN 1 ELSE 0 IN
       /\ Cardinality(EffectsOf("cancelOrder", i)) = 1
       /\ Cardinality(EffectsOf("closeWorkspace", i)) = n
       /\ Cardinality(EffectsOf("mutate", i)) = n
       /\ Cardinality(EffectsOf("success", i)) = n
       /\ \A k \in EffectsOf("success", i) : effects[k].arg = order.orderNumber
       \* none of the three precedes the call itself
       /\ \A k \in EffectsOf("closeWorkspace", i) \cup EffectsOf("mutate", i)
                     \cup EffectsOf("success", i) :
            \A c \in EffectsOf("cancelOrder", i) : c < k

\* C3: every validated submit issues exactly one cancelOrder call; a call that
\* has resolved successfully has closed the workspace, triggered the re-fetch
\* and emitted a success notification with the order number, each exactly
\* once, and a call that has not has produced none of the three.
C3_OneCallAndItsEffects ==
  /\ []C3_PerCall
  /\ [][SubmitSettles /\ errors' = {} =>
          /\ Len(calls') = Len(calls) + 1
          /\ Len(effects') = Len(effects) + 1]_vars

\* C3 witness: the first call has resolved while a second one is in flight.
C3_Witness ==
  /\ Len(calls) = 2
  /\ calls[1].status = "resolved"
  /\ calls[2].status = "pending"

C4_PerCall ==
  \A i \in 1..Len(calls) :
    calls[i].status = "rejected" =>
      /\ EffectsOf("closeWorkspace", i) = {}
      /\ EffectsOf("mutate", i) = {}
      /\ EffectsOf("success", i) = {}
      /\ Cardinality(EffectsOf("error", i)) = 1
      /\ \A k \in EffectsOf("error", i) : effects[k].arg = calls[i].message
      /\ Cardinality(EffectsOf("cancelOrder", i)) = 1

\* A step in which some call rejects
SomeCallRejects ==
  \E i \in 1..Len(calls) : calls[i].status = "pending" /\ calls'[i].status = "rejected"

\* C4: a rejected call leaves the form open and the order list alone, emits
\* exactly one error notification carrying the rejection message and is not
\* re-issued; the submit button then starts a new cycle.
C4_RejectionKeepsFormOpen ==
  /\ []C4_PerCall
  /\ [][SomeCallRejects =>
          /\ workspaceOpen' = workspaceOpen
          /\ Len(calls') = Len(calls)
          /\ Len(effects') = Len(effects) + 1
          /\ isSubmitting' = isSubmitting
          /\ (workspaceOpen' /\ Len(calls') < MaxCalls => (ENABLED SubmitClick)')]_vars

\* C4 witness: the first call was rejected, the form is still open, and the
\* user's next submit has issued a second call after the error notification.
C4_Witness ==
  /\ Len(calls) = 2
  /\ calls[1].status = "rejected"
  /\ workspaceOpen
  /\ \E k \in EffectsOf("error", 1) : \E c \in EffectsOf("cancelOrder", 2) : k < c

\* C5: a submit that fails validation shows the field-level messages and turns
\* the global "Please fill all the required fields" notice on.
C5_FailedValidationShowsNotice ==
  [][SubmitSettles /\ errors' # {} => showErrorNotification']_vars

\* C6: an undefined or empty reason never reaches cancelOrder.
C6_NoEmptyReasonReachesCancelOrder ==
  \A i \in 1..Len(calls) : calls[i].payload.fulfillerComment # ""

\* C10: closeWorkspace is invoked at most once, and after the workspace has been
\* closed no other handler closes it, re-fetches or notifies.
C10_ClosedOnceThenSilent ==
  LET closes == {k \in 1..Len(effects) : effects[k].fn = "closeWorkspace"} IN
  /\ Cardinality(closes) <= 1
  /\ \A k \in closes : \A l \in (k + 1)..Len(effects) :
       effects[l].call = effects[k].call

(***************************************************************************)
(*                     Properties of ConditionsOverview                    *)
(***************************************************************************)

\* The positions of the conditions of a sequence that have the given status
Matching(seq, status) == {i \in 1..Len(seq) : seq[i].clinicalStatus = status}
\* The k-th smallest member of a set of positions
Kth(S, k) == CHOOSE i \in S : Cardinality({j \in S : j <= i}) = k

C7_FilteredIsTheMatchingSubsequence ==
  conditions # None =>
    /\ filteredConditions # None
    /\ IF filter = "All"
         THEN filteredConditions[1] = conditions[1]
         ELSE LET M == Matching(conditions[1], filter) IN
              /\ Len(filteredConditions[1]) = Cardinality(M)
              /\ \A k \in 1..Cardinality(M) :
                   filteredConditions[1][k] = conditions[1][Kth(M, k)]

\* C7: the filter starts as Active; filteredConditions is the conditions whose
\* clinicalStatus equals the filter, in their original order, and the input
\* itself for All; choosing a filter leaves the fetched sequence as it was.
C7_Filtering ==
  /\ filter = "Active"
  /\ []C7_FilteredIsTheMatchingSubsequence
  /\ [][filter' # filter => conditions' = conditions]_vars

\* C7 witness: of the three conditions fetched the first and the last are
\* Inactive, and the Inactive filter shows those two.
C7_Witness ==
  /\ conditions # None
  /\ Len(conditions[1]) = 3
  /\ conditions[1][1].clinicalStatus = "Inactive"
  /\ conditions[1][2].clinicalStatus = "Active"
  /\ conditions[1][3].clinicalStatus = "Inactive"
  /\ filter = "Inactive"
  /\ Len(filteredConditions[1]) = 2

\* C8: the current page never lies beyond the last page of the filtered
\* sequence, so the visible slice is non-empty whenever that sequence is.
C8_PageWithinLastPage ==
  rendered = "DataTable" =>
    /\ currentPage <= totalPages
    /\ (Len(paginationData) > 0 => Len(paginatedConditions) > 0)

\* C9: the skeleton, the error state, the empty state and the "No conditions
\* to display" tile are each shown exactly when loading, on a fetch failure,
\* with zero records, and with records all of which the filter excludes.
C9_FourOutcomes ==
  LET loaded == ~isLoading /\ error = None
      total == IF conditions = None THEN 0 ELSE Len(conditions[1])
      shown == IF filteredConditions = None THEN 0 ELSE Len(filteredConditions[1])
  IN
  /\ rendered = "DataTableSkeleton" <=> isLoading
  /\ rendered = "ErrorState" <=> ~isLoading /\ error # None
  /\ rendered = "EmptyState" <=> loaded /\ total = 0
  /\ tileShown <=> loaded /\ total > 0 /\ shown = 0
====
